---- MODULE Spec2Model ----
(***************************************************************************)
(* RESTORE energy modelling framework: the parameter store (DataHandler),  *)
(* the flow/entity connectivity helpers and the model skeleton             *)
(* (init_model), as state machines.                                        *)
(*                                                                         *)
(* Python values are modelled as tagged records:                           *)
(*   NaN, Num(n)   what a cell of an input sheet holds                     *)
(*   None, Num(n)  what an accessor returns                                *)
(*   Return(v), Raise(exc, args)   the outcome of a call                   *)
(* The args of an exception are the flattened strings of its payload.      *)
(***************************************************************************)
EXTENDS Integers, Sequences, FiniteSets, TLC

VARIABLES
    excel_file,   \* the workbook DataHandler.__init__ reads: a sequence of sheets
    init_result,  \* the outcome of DataHandler.__init__
    params,       \* DataHandler.params: entity -> kind -> key -> stored value
    fxe,          \* DataHandler.fxe: "FiE" / "FoE" -> adjacency table
    call,         \* the call in progress (function name and arguments)
    result,       \* the outcome of that call
    cnf,          \* model_utils.configuration: YEARS, DAYS, HOURS, ENTITIES, FLOWS, ...
    model,        \* the pyomo ConcreteModel: component name -> component
    pc,           \* the position of init_model, configure_sector or run in its body
    solver        \* what run has done outside the model: solver calls, files, output

buildVars == <<excel_file, init_result>>
handlerVars == <<params, fxe>>
callVars == <<call, result>>
modelVars == <<cnf, model, pc, solver>>

vars == <<modelVars, buildVars, handlerVars, callVars>>

----------------------------------------------------------------------------
(* Bounds of the model *)

\* years 1..MaxYear can carry a record; queries also use year MaxYear + 1
MaxYear == 1

\* the non-zero number that cells hold, besides NaN and 0
TopVal == 5

\* workbooks hold 1..MaxSheets sheets
MaxSheets == 2

\* adjacency tables have up to MaxRows rows
MaxRows == 2

\* the entity lists of the mappings given to merge_dicts have up to MaxList entries
MaxList == 2
MaxFlow == 12

----------------------------------------------------------------------------
(* Python values *)

NaN == [tag |-> "nan"]
None == [tag |-> "None"]
Num(n) == [tag |-> "num", n |-> n]

\* np.isnan(value)
isnan(value) == value.tag = "nan"

Return(v) == [tag |-> "return", value |-> v]
Raise(exc, args) == [tag |-> "raise", exc |-> exc, args |-> args]

Returned(r) == r.tag = "return"
Raised(r) == r.tag = "raise"

----------------------------------------------------------------------------
(* The store's shape *)

KnownEntities == {"e1"}
QueryEntities == KnownEntities \cup {"e9"}
StoredParameters == {"p"}
QueryParameters == StoredParameters \cup {"q"}
StoredFlows == {"f"}
QueryFlows == StoredFlows \cup {"g"}
StoredYears == 1..MaxYear
QueryYears == 1..(MaxYear + 1)
Vals == {NaN, Num(0), Num(TopVal)}

\* the keys of each kind's table, as DataHandler.__init__ indexes them
KeysOf(kind) ==
    CASE kind = "constant" -> {<<p>> : p \in StoredParameters}
      [] kind = "configuration" -> {<<p>> : p \in StoredParameters}
      [] kind = "constant_fxe" -> StoredParameters \X StoredFlows
      [] kind = "annual" -> StoredParameters \X StoredYears
      [] kind = "annual_fxe" -> StoredParameters \X StoredFlows \X StoredYears

\* a kind's table is there only if a row of that Type exists: never empty
TablesOf(kind) ==
    UNION {[K -> Vals] : K \in (SUBSET KeysOf(kind)) \ {{}}}

\* an absent table is the empty set, a present one a singleton
Opt(S) == {{}} \cup {{t} : t \in S}

StoreKinds == {"constant", "annual", "constant_fxe", "annual_fxe"}

EntityTables(c, a, cf, af) ==
    LET pick == [k \in StoreKinds |->
                    CASE k = "constant" -> c
                      [] k = "annual" -> a
                      [] k = "constant_fxe" -> cf
                      [] k = "annual_fxe" -> af]
    IN  [k \in {kk \in StoreKinds : pick[kk] # {}} |-> CHOOSE t \in pick[k] : TRUE]

Stores ==
    {[e \in KnownEntities |-> EntityTables(c, a, cf, af)] :
        c \in Opt(TablesOf("constant")), a \in Opt(TablesOf("annual")),
        cf \in Opt(TablesOf("constant_fxe")), af \in Opt(TablesOf("annual_fxe"))}

\* nothing has been solved, written or printed
NoSolver == [calls |-> 0, status |-> "none", files |-> {}, stdout |-> <<>>]

NoCall == [op |-> "none", entity_id |-> "", parameter |-> "", flow |-> "",
           year |-> 0, trigger_error |-> FALSE]

----------------------------------------------------------------------------
(* DataHandler: specific gets (stringent) *)

\* self.params[entity_id][kind][key]: the dict lookups, the first missing key raising
lookup(entity_id, kind, key) ==
    IF entity_id \notin DOMAIN params THEN Raise("KeyError", <<entity_id>>)
    ELSE IF kind \notin DOMAIN params[entity_id] THEN Raise("KeyError", <<kind>>)
    ELSE IF key \notin DOMAIN params[entity_id][kind]
         THEN Raise("KeyError", [i \in DOMAIN key |->
                        IF i = Len(key) /\ kind \in {"annual", "annual_fxe"}
                        THEN ToString(key[i]) ELSE key[i]])
    ELSE Return(params[entity_id][kind][key])

\* mutant: an empty cell surfaces as zero
none_if_nan_zero(value) == IF isnan(value) THEN Num(0) ELSE value

\* return None if np.isnan(value) else value
none_if_nan(value) == IF isnan(value) THEN None ELSE value

check_cnf(entity_id, parameter) ==
    LET value == lookup(entity_id, "configuration", <<parameter>>)
    IN  IF Raised(value) THEN Raise("KeyError", <<"Invalid key for", entity_id, parameter>>)
        ELSE Return(none_if_nan(value.value))

get_const(entity_id, parameter) ==
    LET value == lookup(entity_id, "constant", <<parameter>>)
    IN  IF Raised(value) THEN Raise("KeyError", <<"Invalid key for", entity_id, parameter>>)
        ELSE Return(none_if_nan(value.value))

get_const_fxe(entity_id, parameter, flow) ==
    LET value == lookup(entity_id, "constant_fxe", <<parameter, flow>>)
    IN  IF Raised(value)
        THEN Raise("KeyError", <<"Invalid key for", entity_id, parameter, flow>>)
        ELSE Return(none_if_nan(value.value))

\* mutant: a missing annual record is answered from the constant table
get_annual_fallback(entity_id, parameter, year) ==
    LET value == lookup(entity_id, "annual", <<parameter, year>>)
    IN  IF Raised(value) THEN get_const(entity_id, parameter)
        ELSE Return(none_if_nan(value.value))

get_annual(entity_id, parameter, year) ==
    LET value == lookup(entity_id, "annual", <<parameter, year>>)
    IN  IF Raised(value) THEN value ELSE Return(none_if_nan(value.value))

get_annual_fxe(entity_id, parameter, flow, year) ==
    LET value == lookup(entity_id, "annual_fxe", <<parameter, flow, year>>)
    IN  IF Raised(value) THEN value ELSE Return(none_if_nan(value.value))

----------------------------------------------------------------------------
(* DataHandler: generic gets *)

\* `kind in self.params[entity_id] and key in self.params[entity_id][kind]`
has_record(entity_id, kind, key) ==
    /\ kind \in DOMAIN params[entity_id]
    /\ key \in DOMAIN params[entity_id][kind]

\* mutant: the constant table is checked first, as the docstring has it
get_constants_first(entity_id, parameter, year, trigger_error) ==
    IF entity_id \notin DOMAIN params THEN Raise("KeyError", <<entity_id>>)
    ELSE
    LET in_const == has_record(entity_id, "constant", <<parameter>>)
        first == IF in_const THEN get_const(entity_id, parameter) ELSE Return(None)
        in_annual == /\ first = Return(None)
                     /\ has_record(entity_id, "annual", <<parameter, year>>)
        second == IF in_annual THEN get_annual(entity_id, parameter, year) ELSE first
        found == in_annual \/ in_const
    IN  IF ~found /\ trigger_error
        THEN Raise("KeyError", <<"Parameter", parameter, "not found for", entity_id>>)
        ELSE second

\* mutant: the constant table is probed with the annual table's (parameter, year) key
get_const_by_year(entity_id, parameter, year, trigger_error) ==
    IF entity_id \notin DOMAIN params THEN Raise("KeyError", <<entity_id>>)
    ELSE
    LET in_annual == has_record(entity_id, "annual", <<parameter, year>>)
        first == IF in_annual THEN get_annual(entity_id, parameter, year)
                 ELSE Return(None)
        in_const == /\ first = Return(None)
                    /\ has_record(entity_id, "constant", <<parameter, year>>)
        second == IF in_const THEN get_const(entity_id, parameter) ELSE first
        found == in_annual \/ in_const
    IN  IF ~found /\ trigger_error
        THEN Raise("KeyError", <<"Parameter", parameter, "not found for", entity_id>>)
        ELSE second

\* mutant: only a value counts as found, a strict call on a NaN record raises
get_found_if_value(entity_id, parameter, year, trigger_error) ==
    IF entity_id \notin DOMAIN params THEN Raise("KeyError", <<entity_id>>)
    ELSE
    LET in_annual == has_record(entity_id, "annual", <<parameter, year>>)
        first == IF in_annual THEN get_annual(entity_id, parameter, year)
                 ELSE Return(None)
        in_const == /\ first = Return(None)
                    /\ has_record(entity_id, "constant", <<parameter>>)
        second == IF in_const THEN get_const(entity_id, parameter) ELSE first
    IN  IF second = Return(None) /\ trigger_error
        THEN Raise("KeyError", <<"Parameter", parameter, "not found for", entity_id>>)
        ELSE second

get(entity_id, parameter, year, trigger_error) ==
    IF entity_id \notin DOMAIN params THEN Raise("KeyError", <<entity_id>>)
    ELSE
    LET in_annual == has_record(entity_id, "annual", <<parameter, year>>)
        first == IF in_annual THEN get_annual(entity_id, parameter, year)
                 ELSE Return(None)
        in_const == /\ first = Return(None)
                    /\ has_record(entity_id, "constant", <<parameter>>)
        second == IF in_const THEN get_const(entity_id, parameter) ELSE first
        found == in_annual \/ in_const
    IN  IF Raised(first) THEN first
        ELSE IF Raised(second) THEN second
        ELSE IF ~found /\ trigger_error
             THEN Raise("KeyError", <<"Parameter", parameter, "not found for", entity_id>>)
        ELSE second

get_fxe(entity_id, parameter, flow, year, trigger_error) ==
    IF entity_id \notin DOMAIN params THEN Raise("KeyError", <<entity_id>>)
    ELSE
    LET in_annual == has_record(entity_id, "annual_fxe", <<parameter, flow, year>>)
        first == IF in_annual THEN get_annual_fxe(entity_id, parameter, flow, year)
                 ELSE Return(None)
        in_const == /\ first = Return(None)
                    /\ has_record(entity_id, "constant_fxe", <<parameter, flow>>)
        second == IF in_const THEN get_const_fxe(entity_id, parameter, flow) ELSE first
        found == in_annual \/ in_const
    IN  IF Raised(first) THEN first
        ELSE IF Raised(second) THEN second
        ELSE IF ~found /\ trigger_error
             THEN Raise("KeyError", <<"Parameter", parameter, "not found for",
                                      entity_id, "and", flow>>)
        ELSE second

----------------------------------------------------------------------------
(* The store under queries: one action per accessor *)

Query(op, e, p, f, y, strict) ==
    [op |-> op, entity_id |-> e, parameter |-> p, flow |-> f, year |-> y,
     trigger_error |-> strict]

\* the handler as constructed: queries start from a finished __init__
InitStore ==
    /\ excel_file = <<>>
    /\ init_result = Return(None)
    /\ params \in Stores
    /\ fxe = <<>>
    /\ call = NoCall
    /\ result = Return(None)
    /\ cnf = <<>>
    /\ model = <<>>
    /\ pc = "idle"
    /\ solver = NoSolver

GetConst ==
    \E e \in QueryEntities, p \in QueryParameters :
        /\ call = NoCall
        /\ call' = Query("get_const", e, p, "", 0, FALSE)
        /\ result' = get_const(e, p)
        /\ UNCHANGED <<buildVars, handlerVars, modelVars>>

GetConstFxe ==
    \E e \in QueryEntities, p \in QueryParameters, f \in QueryFlows :
        /\ call = NoCall
        /\ call' = Query("get_const_fxe", e, p, f, 0, FALSE)
        /\ result' = get_const_fxe(e, p, f)
        /\ UNCHANGED <<buildVars, handlerVars, modelVars>>

GetAnnual ==
    \E e \in QueryEntities, p \in QueryParameters, y \in QueryYears :
        /\ call = NoCall
        /\ call' = Query("get_annual", e, p, "", y, FALSE)
        /\ result' = get_annual(e, p, y)
        /\ UNCHANGED <<buildVars, handlerVars, modelVars>>

GetAnnualFxe ==
    \E e \in QueryEntities, p \in QueryParameters, f \in QueryFlows, y \in QueryYears :
        /\ call = NoCall
        /\ call' = Query("get_annual_fxe", e, p, f, y, FALSE)
        /\ result' = get_annual_fxe(e, p, f, y)
        /\ UNCHANGED <<buildVars, handlerVars, modelVars>>

Get ==
    \E e \in QueryEntities, p \in QueryParameters, y \in QueryYears, strict \in BOOLEAN :
        /\ call = NoCall
        /\ call' = Query("get", e, p, "", y, strict)
        /\ result' = get(e, p, y, strict)
        /\ UNCHANGED <<buildVars, handlerVars, modelVars>>

GetFxe ==
    \E e \in QueryEntities, p \in QueryParameters, f \in QueryFlows, y \in QueryYears,
       strict \in BOOLEAN :
        /\ call = NoCall
        /\ call' = Query("get_fxe", e, p, f, y, strict)
        /\ result' = get_fxe(e, p, f, y, strict)
        /\ UNCHANGED <<buildVars, handlerVars, modelVars>>

\* the caller takes the outcome and is free to make its next call
Consume ==
    /\ call # NoCall
    /\ call' = NoCall
    /\ result' = Return(None)
    /\ UNCHANGED <<buildVars, handlerVars, modelVars>>

NextStore ==
    \/ Consume
    \/ GetConst
    \/ GetConstFxe
    \/ GetAnnual
    \/ GetAnnualFxe
    \/ Get
    \/ GetFxe

SpecStore == InitStore /\ [][NextStore]_vars

----------------------------------------------------------------------------
(* What the store holds for the call in `call` *)

IsGeneric == call.op \in {"get", "get_fxe"}
PerFlow == call.op \in {"get_fxe", "get_const_fxe", "get_annual_fxe"}
AnnualKind == IF PerFlow THEN "annual_fxe" ELSE "annual"
ConstKind == IF PerFlow THEN "constant_fxe" ELSE "constant"
AnnualKey == IF PerFlow THEN <<call.parameter, call.flow, call.year>>
             ELSE <<call.parameter, call.year>>
ConstKey == IF PerFlow THEN <<call.parameter, call.flow>> ELSE <<call.parameter>>

Present(kind, key) ==
    /\ call.entity_id \in DOMAIN params
    /\ kind \in DOMAIN params[call.entity_id]
    /\ key \in DOMAIN params[call.entity_id][kind]

Stored(kind, key) == params[call.entity_id][kind][key]

\* the absence value for a NaN cell, the number otherwise
Surfaced(v) == IF v = NaN THEN None ELSE v

KeyErrorRaised == result.tag = "raise" /\ result.exc = "KeyError"

----------------------------------------------------------------------------
(* C1 *)

----------------------------------------------------------------------------
(* C2 *)

\* C2: for a key absent from both the annual(-per-flow) and the
\* constant(-per-flow) table, get / get_fxe raise KeyError under strict access
\* and return None, without raising, under non-strict access.
C2_MissBehaviour ==
    (IsGeneric /\ ~Present(AnnualKind, AnnualKey) /\ ~Present(ConstKind, ConstKey))
        => IF call.trigger_error THEN KeyErrorRaised ELSE result = Return(None)

----------------------------------------------------------------------------
(* C3 *)

----------------------------------------------------------------------------
(* C4 *)

\* no annual record of the call's entity and parameter, whatever the year
NoAnnualRecord ==
    \A y \in QueryYears : ~Present("annual", <<call.parameter, y>>)

\* C4: for an (entity, parameter) present only in the constant table, every
\* get call returns what the constant record holds, whatever its year argument
\* and whatever calls were made before it.
C4_YearInvariance ==
    (call.op = "get" /\ Present("constant", ConstKey) /\ NoAnnualRecord)
        => result = Return(Surfaced(Stored("constant", ConstKey)))

C4_Witness ==
    /\ call.op = "get" /\ call.year = MaxYear + 1
    /\ Present("constant", ConstKey) /\ NoAnnualRecord
    /\ "annual_fxe" \in DOMAIN params[call.entity_id]
    /\ result = Return(Num(TopVal))

----------------------------------------------------------------------------
(* C5 *)

IsDirect == call.op \in {"get_const", "get_const_fxe", "get_annual", "get_annual_fxe"}
DirectKind == IF call.op \in {"get_const", "get_const_fxe"} THEN ConstKind ELSE AnnualKind
DirectKey == IF call.op \in {"get_const", "get_const_fxe"} THEN ConstKey ELSE AnnualKey

\* C5: each of get_const, get_const_fxe, get_annual and get_annual_fxe reads
\* its own kind's table only: it raises KeyError when the key is absent from
\* that table (the entity unknown or without a table of that kind included),
\* and otherwise returns what that table holds.
C5_DirectAccessors ==
    IsDirect =>
        IF Present(DirectKind, DirectKey)
        THEN result = Return(Surfaced(Stored(DirectKind, DirectKey)))
        ELSE KeyErrorRaised

C5_Witness ==
    /\ call.op = "get_annual"
    /\ call.entity_id \in DOMAIN params
    /\ "annual" \notin DOMAIN params[call.entity_id]
    /\ Present("constant", ConstKey) /\ Stored("constant", ConstKey) = Num(TopVal)
    /\ KeyErrorRaised

----------------------------------------------------------------------------
(* Connectivity: adjacency tables and flow -> entities mappings *)

Range(seq) == {seq[i] : i \in DOMAIN seq}

\* a pandas DataFrame read with index_col=0: row labels, column labels and the
\* set of (row, column) cells that are not missing
DataFrame(index, columns, notna) ==
    [index |-> index, columns |-> columns, notna |-> notna]

\* io_df.T
T(io_df) ==
    DataFrame(io_df.columns, io_df.index, {<<c[2], c[1]>> : c \in io_df.notna})

\* list(io_df.stack().index): the (row, column) labels of the non-missing cells,
\* row by row
stack_index(io_df) ==
    LET nc == Len(io_df.columns)
        cells == [k \in 1..(Len(io_df.index) * nc) |->
                    <<io_df.index[((k - 1) \div nc) + 1], io_df.columns[((k - 1) % nc) + 1]>>]
        notna(cell) == cell \in io_df.notna
    IN  SelectSeq(cells, notna)

\* for p, f in index_tuples: io_dict.setdefault(f, []).append(p)
RECURSIVE append_all(_, _, _)
append_all(io_dict, index_tuples, i) ==
    IF i > Len(index_tuples) THEN io_dict
    ELSE LET p == index_tuples[i][1]
             f == index_tuples[i][2]
             old == IF f \in DOMAIN io_dict THEN io_dict[f] ELSE <<>>
         IN  append_all([k \in DOMAIN io_dict \cup {f} |->
                            IF k = f THEN Append(old, p) ELSE io_dict[k]],
                        index_tuples, i + 1)

\* mutant: the closing filter is missing, flows without entity stay in the result
get_flow_entity_dict_unfiltered(io_df, by_entity) ==
    LET io_dict == [f \in Range(io_df.columns) |-> <<>>]
        index_tuples == IF ~by_entity THEN stack_index(io_df) ELSE stack_index(T(io_df))
    IN  append_all(io_dict, index_tuples, 1)

get_flow_entity_dict(io_df, by_entity) ==
    LET io_dict == [f \in Range(io_df.columns) |-> <<>>]
        index_tuples == IF ~by_entity THEN stack_index(io_df) ELSE stack_index(T(io_df))
        filled == append_all(io_dict, index_tuples, 1)
    IN  [k \in {kk \in DOMAIN filled : filled[kk] # <<>>} |-> filled[k]]

\* for k, i in d.items(): out_dict[k].extend(i)
extend_all(out_dict, d) ==
    [k \in DOMAIN out_dict |-> IF k \in DOMAIN d THEN out_dict[k] \o d[k] ELSE out_dict[k]]

\* mutant: a plain dict update, dict2's list replacing dict1's on a shared key
merge_dicts_update(dict1, dict2) ==
    [k \in DOMAIN dict1 \cup DOMAIN dict2 |->
        IF k \in DOMAIN dict2 THEN dict2[k] ELSE dict1[k]]

merge_dicts(dict1, dict2) ==
    LET keys == DOMAIN dict1 \cup DOMAIN dict2
        out_dict == [k \in keys |-> <<>>]
    IN  extend_all(extend_all(out_dict, dict1), dict2)

\* The lists as objects: a list is named by the mapping that holds it and its
\* key, and out_dict[k].extend(i) changes the list out_dict[k] names, in place.
ListsOf(name, d) == [r \in {<<name, k>> : k \in DOMAIN d} |-> d[r[2]]]

\* mutant: out_dict starts as a copy of dict1 that shares dict1's lists
out_dict_shared(dict1, dict2) ==
    [k \in DOMAIN dict1 \cup DOMAIN dict2 |->
        IF k \in DOMAIN dict1 THEN <<"dict1", k>> ELSE <<"out_dict", k>>]

\* out_dict = {k: [] for k in keys}: every key names a new list
out_dict(dict1, dict2) ==
    [k \in DOMAIN dict1 \cup DOMAIN dict2 |-> <<"out_dict", k>>]

\* for k, i in d.items(): out_dict[k].extend(i), on the lists themselves
extend_in_place(lists, out, name, d) ==
    [r \in DOMAIN lists |->
        IF \E k \in DOMAIN d : out[k] = r
        THEN lists[r] \o lists[<<name, CHOOSE k \in DOMAIN d : out[k] = r>>]
        ELSE lists[r]]

\* every list there is once merge_dicts has returned
lists_after_merge(dict1, dict2) ==
    LET out == out_dict(dict1, dict2)
        new == [r \in {<<"out_dict", k>> : k \in DOMAIN out} |-> <<>>]
        lists == ListsOf("dict1", dict1) @@ ListsOf("dict2", dict2) @@ new
    IN  extend_in_place(extend_in_place(lists, out, "dict1", dict1), out, "dict2", dict2)

\* dict1 and dict2 as the caller finds them after the call
arguments_after_merge(dict1, dict2) ==
    LET lists == lists_after_merge(dict1, dict2)
    IN  <<[k \in DOMAIN dict1 |-> lists[<<"dict1", k>>]],
          [k \in DOMAIN dict2 |-> lists[<<"dict2", k>>]]>>

----------------------------------------------------------------------------
(* The connectivity helpers under calls *)

RowLabels == <<"e1", "e2", "e3", "e4">>
ColumnLabels == <<"f1", "f2">>

IoTables ==
    UNION {{DataFrame(SubSeq(RowLabels, 1, n), ColumnLabels, cells) :
                cells \in SUBSET (Range(SubSeq(RowLabels, 1, n)) \X Range(ColumnLabels))} :
            n \in 0..MaxRows}

EntityLists == UNION {[1..n -> {"e1", "e2"}] : n \in 0..MaxList}

\* flow -> entity list mappings over some of the flows
FlowDicts == UNION {[K -> EntityLists] : K \in SUBSET Range(ColumnLabels)}

InitConn ==
    /\ excel_file = <<>>
    /\ init_result = Return(None)
    /\ params = <<>>
    /\ fxe = <<>>
    /\ call = NoCall
    /\ result = Return(None)
    /\ cnf = <<>>
    /\ model = <<>>
    /\ pc = "idle"
    /\ solver = NoSolver

\* the tables and mappings a call is made on: the handler's own sheets and the
\* mappings read from them where the handler holds sheets, any table otherwise
IoArguments == IF fxe = <<>> THEN IoTables ELSE {fxe[group] : group \in DOMAIN fxe}
DictArguments ==
    IF fxe = <<>> THEN FlowDicts
    ELSE {get_flow_entity_dict(io_df, by_entity) : io_df \in IoArguments, by_entity \in BOOLEAN}

GetFlowEntityDict ==
    /\ call = NoCall
    /\ \E io_df \in IoArguments, by_entity \in BOOLEAN :
        /\ call' = [op |-> "get_flow_entity_dict", io_df |-> io_df, by_entity |-> by_entity]
        /\ result' = Return(get_flow_entity_dict(io_df, by_entity))
        /\ UNCHANGED <<buildVars, handlerVars, modelVars>>

MergeDicts ==
    /\ call = NoCall
    /\ \E dict1 \in DictArguments, dict2 \in DictArguments :
        /\ call' = [op |-> "merge_dicts", dict1 |-> dict1, dict2 |-> dict2,
                    after |-> arguments_after_merge(dict1, dict2)]
        /\ result' = Return(merge_dicts(dict1, dict2))
        /\ UNCHANGED <<buildVars, handlerVars, modelVars>>

NextConn ==
    \/ Consume
    \/ GetFlowEntityDict
    \/ MergeDicts

SpecConn == InitConn /\ [][NextConn]_vars

----------------------------------------------------------------------------
(* C8 *)

\* the labels on one axis that have a non-missing cell, and their partners
Connected(io_df, axis) == {c[axis] : c \in io_df.notna}
Partners(io_df, axis, label) == {c[3 - axis] : c \in {d \in io_df.notna : d[axis] = label}}

\* C8: get_flow_entity_dict (flows as keys, the default) returns a mapping whose
\* keys are exactly the columns with a non-missing cell, each mapped to exactly
\* the rows whose cell in that column is non-missing, once each; grouped by
\* entity the roles of rows and columns swap; no key maps to an empty list.
C8_NoEmptyFlows ==
    call.op = "get_flow_entity_dict" =>
        LET io_df == call.io_df
            axis == IF call.by_entity THEN 1 ELSE 2
            d == result.value
        IN  /\ Returned(result)
            /\ DOMAIN d = Connected(io_df, axis)
            /\ \A k \in DOMAIN d :
                /\ d[k] # <<>>
                /\ Range(d[k]) = Partners(io_df, axis, k)
                /\ Len(d[k]) = Cardinality(Partners(io_df, axis, k))

C8_Witness ==
    /\ call.op = "get_flow_entity_dict" /\ ~call.by_entity
    /\ Connected(call.io_df, 2) = {"f1"}
    /\ Partners(call.io_df, 2, "f1") = {"e1", "e2"}
    /\ DOMAIN result.value = {"f1"}
    /\ result.value["f1"] = <<"e1", "e2">>

----------------------------------------------------------------------------
(* C9 *)

Count(seq, x) == Cardinality({i \in DOMAIN seq : seq[i] = x})
ListOf(d, k) == IF k \in DOMAIN d THEN d[k] ELSE <<>>

\* C9: merge_dicts(dict1, dict2) has the union of both key sets as its keys;
\* with disjoint key sets every key keeps the list of the mapping it comes from;
\* on every key the merged list is as long as the two inputs' lists together and
\* holds each entity as often as both inputs together.
C9_MergeKeepsAll ==
    call.op = "merge_dicts" =>
        LET d1 == call.dict1
            d2 == call.dict2
            out == result.value
        IN  /\ Returned(result)
            /\ DOMAIN out = DOMAIN d1 \cup DOMAIN d2
            /\ DOMAIN d1 \cap DOMAIN d2 = {} =>
                    \A k \in DOMAIN out : out[k] = IF k \in DOMAIN d1 THEN d1[k] ELSE d2[k]
            /\ \A k \in DOMAIN out :
                /\ Len(out[k]) = Len(ListOf(d1, k)) + Len(ListOf(d2, k))
                /\ \A x \in Range(out[k]) \cup Range(ListOf(d1, k)) \cup Range(ListOf(d2, k)) :
                        Count(out[k], x) = Count(ListOf(d1, k), x) + Count(ListOf(d2, k), x)

C9_Witness ==
    /\ call.op = "merge_dicts"
    /\ DOMAIN call.dict1 = {"f1"} /\ call.dict1["f1"] = <<"e1">>
    /\ DOMAIN call.dict2 = {"f1", "f2"} /\ call.dict2["f1"] = <<"e1", "e2">>
    /\ result.value["f1"] = <<"e1", "e1", "e2">>

----------------------------------------------------------------------------
(* DataHandler.__init__: reading the workbook *)

Pending == [tag |-> "pending"]

\* the index columns of a parameter sheet; the other columns are entity ids
CNF_INDEX == <<"Type", "Parameter", "Flow", "Year">>

RecognisedTypes ==
    {"constant", "configuration", "constant_fxe", "configuration_fxe", "annual", "annual_fxe"}

\* one row of a parameter sheet: the index columns and one cell per entity column
Row(type, parameter, flow, year, cells) ==
    [Type |-> type, Parameter |-> parameter, Flow |-> flow, Year |-> year, cells |-> cells]

\* id_cnf["Type"].unique(): the Type values in order of first appearance
RECURSIVE unique(_, _, _)
unique(rows, i, seen) ==
    IF i > Len(rows) THEN seen
    ELSE unique(rows, i + 1,
                IF rows[i].Type \in Range(seen) THEN seen ELSE Append(seen, rows[i].Type))

\* set_index([...]) after the drop of the unused index columns
key_of(data_type, row) ==
    CASE data_type \in {"constant", "configuration"} -> <<row.Parameter>>
      [] data_type \in {"constant_fxe", "configuration_fxe"} -> <<row.Parameter, row.Flow>>
      [] data_type = "annual" -> <<row.Parameter, row.Year>>
      [] data_type = "annual_fxe" -> <<row.Parameter, row.Flow, row.Year>>

\* entity_df.to_dict()[entity_id]: key -> cell, the last row of a key winning
to_dict(rows, data_type, entity_id) ==
    LET of_type(row) == row.Type = data_type
        entity_df == SelectSeq(rows, of_type)
        last(k) == CHOOSE i \in DOMAIN entity_df :
                        /\ key_of(data_type, entity_df[i]) = k
                        /\ \A j \in DOMAIN entity_df :
                                j > i => key_of(data_type, entity_df[j]) # k
    IN  [k \in {key_of(data_type, entity_df[i]) : i \in DOMAIN entity_df} |->
            entity_df[last(k)].cells[entity_id]]

\* mutant: an unrecognised Type is indexed like a constant instead of refused
index_type_lenient(sheet, entity_id, data_type) ==
    IF data_type \in RecognisedTypes
    THEN Return(to_dict(sheet.rows, data_type, entity_id))
    ELSE Return([k \in {<<sheet.rows[i].Parameter>> : i \in DOMAIN sheet.rows} |-> NaN])

\* the if / elif chain on data_type and the store of the entity's table
index_type(sheet, entity_id, data_type) ==
    IF data_type \in RecognisedTypes
    THEN Return(to_dict(sheet.rows, data_type, entity_id))
    ELSE Raise("ValueError", <<"Invalid Data Type", data_type, "in", sheet.group, entity_id>>)

\* for data_type in id_cnf["Type"].unique(): ... params[entity_id][data_type] = ...
RECURSIVE index_types(_, _, _, _, _)
index_types(sheet, entity_id, types, k, tables) ==
    IF k > Len(types) THEN Return(tables)
    ELSE LET table == index_type(sheet, entity_id, types[k])
         IN  IF Raised(table) THEN table
             ELSE index_types(sheet, entity_id, types, k + 1,
                    [t \in DOMAIN tables \cup {types[k]} |->
                        IF t = types[k] THEN table.value ELSE tables[t]])

\* mutant: the duplicate test is missing, a later sheet overwrites the entity
never_duplicate(entity_id, read) == FALSE

\* if entity_id in params
is_duplicate(entity_id, read) == entity_id \in DOMAIN read

\* for entity_id in sheet_df.columns.drop(CNF_INDEX): ...
RECURSIVE read_columns(_, _, _)
read_columns(sheet, j, read) ==
    IF j > Len(sheet.columns) THEN Return(read)
    ELSE LET entity_id == sheet.columns[j]
             tables == index_types(sheet, entity_id, unique(sheet.rows, 1, <<>>), 1, <<>>)
         IN  IF is_duplicate(entity_id, read)
             THEN Raise("ValueError", <<"Found duplicate id", entity_id, "in sheet", sheet.group>>)
             ELSE IF Raised(tables) THEN tables
             ELSE read_columns(sheet, j + 1,
                    [e \in DOMAIN read \cup {entity_id} |->
                        IF e = entity_id THEN tables.value ELSE read[e]])

\* for group in excel_file.sheet_names: ...
RECURSIVE read_sheets(_, _, _, _)
read_sheets(book, i, tables, read) ==
    IF i > Len(book) THEN Return([fxe |-> tables, params |-> read])
    ELSE IF book[i].group \in {"FiE", "FoE"}
    THEN read_sheets(book, i + 1,
            [g \in DOMAIN tables \cup {book[i].group} |->
                IF g = book[i].group THEN book[i].table ELSE tables[g]],
            read)
    ELSE LET sheet == read_columns(book[i], 1, read)
         IN  IF Raised(sheet) THEN sheet
             ELSE read_sheets(book, i + 1, tables, sheet.value)

----------------------------------------------------------------------------
(* Construction from a workbook *)

SheetNames == <<"S1", "S2", "S3", "S4">>

ColumnSamples == {<<>>, <<"e1">>, <<"e2">>, <<"e1", "e2">>, <<"e2", "e1">>}

\* the rows of a sheet, every entity column holding the same cell in a row
RowSamples(columns) ==
    LET cells(v) == [e \in Range(columns) |-> v]
    IN  { <<>>,
          <<Row("constant", "p", "", 0, cells(Num(TopVal))),
            Row("annual", "p", "", 1, cells(NaN)),
            Row("constant_fxe", "p", "f", 0, cells(Num(0))),
            Row("annual_fxe", "p", "f", 1, cells(Num(TopVal))),
            Row("configuration", "p", "", 0, cells(Num(1))),
            Row("configuration_fxe", "p", "f", 0, cells(NaN)),
            Row("constant", "p", "", 0, cells(Num(0)))>>,
          <<Row("bogus", "p", "", 0, cells(Num(TopVal)))>>,
          <<Row("annual", "p", "", 1, cells(Num(TopVal))),
            Row("", "p", "", 0, cells(Num(0))),
            Row("constant", "p", "", 0, cells(Num(0)))>> }

SheetContents ==
    UNION {{[group |-> "", columns |-> c, rows |-> r, table |-> <<>>] : r \in RowSamples(c)} :
            c \in ColumnSamples}
    \cup {[group |-> g, columns |-> <<>>, rows |-> <<>>,
           table |-> DataFrame(<<"e1", "e2">>, <<"f1">>, {<<"e1", "f1">>})] : g \in {"FiE", "FoE"}}

\* sheets in workbook order; a parameter sheet is named after its position
Workbooks ==
    LET named(b) == [i \in DOMAIN b |->
                        IF b[i].group = "" THEN [b[i] EXCEPT !.group = SheetNames[i]] ELSE b[i]]
        distinct(b) == \A i, j \in DOMAIN b : i # j => b[i].group # b[j].group
    IN  {b \in UNION {{named(c) : c \in [1..n -> SheetContents]} : n \in 1..MaxSheets} :
            distinct(b)}

InitBuild ==
    /\ excel_file \in Workbooks
    /\ init_result = Pending
    /\ params = <<>>
    /\ fxe = <<>>
    /\ call = NoCall
    /\ result = Return(None)
    /\ cnf = <<>>
    /\ model = <<>>
    /\ pc = "idle"
    /\ solver = NoSolver

\* DataHandler(path): self.fxe and self.params are set only when every sheet was read
Construct ==
    /\ init_result = Pending
    /\ LET read == read_sheets(excel_file, 1, <<>>, <<>>)
       IN  IF Raised(read)
           THEN /\ init_result' = read
                /\ UNCHANGED handlerVars
           ELSE /\ init_result' = Return(None)
                /\ fxe' = read.value.fxe
                /\ params' = read.value.params
    /\ UNCHANGED <<excel_file, callVars, modelVars>>

NextBuild ==
    \/ Construct

SpecBuild == InitBuild /\ [][NextBuild]_vars

----------------------------------------------------------------------------
(* What the workbook holds *)

\* the (sheet, column) places of the entity columns, in reading order
Places ==
    {<<i, j>> \in (1..Len(excel_file)) \X (1..4) :
        /\ excel_file[i].group \notin {"FiE", "FoE"}
        /\ j \in DOMAIN excel_file[i].columns}
IdAt(pl) == excel_file[pl[1]].columns[pl[2]]
Earlier(a, b) == a[1] < b[1] \/ (a[1] = b[1] /\ a[2] < b[2])

\* the entity id of this place is a column of an earlier sheet too
DuplicateAt(pl) == \E q \in Places : q[1] < pl[1] /\ IdAt(q) = IdAt(pl)
\* a row of this place's sheet carries an unrecognised Type
BadTypeAt(pl) ==
    \E r \in DOMAIN excel_file[pl[1]].rows :
        excel_file[pl[1]].rows[r].Type \notin RecognisedTypes
DefectAt(pl) == DuplicateAt(pl) \/ BadTypeAt(pl)
FirstDefect ==
    CHOOSE pl \in Places : DefectAt(pl) /\ \A q \in Places : DefectAt(q) => ~Earlier(q, pl)

Aborted == init_result.tag = "raise" /\ init_result.exc = "ValueError"

----------------------------------------------------------------------------
(* C6 *)

\* C6 as stated: when an entity identifier is a column of two parameter sheets,
\* construction aborts with an error that names an identifier that is a column
\* of two sheets.
C6_ErrorNamesDuplicate ==
    (init_result # Pending /\ \E pl \in Places : DuplicateAt(pl)) =>
        /\ Aborted
        /\ \E pl \in Places :
            /\ DuplicateAt(pl)
            /\ init_result.args = <<"Found duplicate id", IdAt(pl), "in sheet",
                                    excel_file[pl[1]].group>>

\* C6 amended: when an entity identifier is a column of two parameter sheets,
\* construction aborts with a ValueError, whatever the order of the sheets, and
\* no store is produced; the error is "Found duplicate id" and names the
\* identifier and the sheet of its second appearance when the duplicate is the
\* first defect met in reading order, and is the "Invalid Data Type" error of
\* the earlier sheet when an unrecognised Type is met before it.
C6_DuplicateAborts ==
    (init_result # Pending /\ \E pl \in Places : DuplicateAt(pl)) =>
        /\ Aborted
        /\ params = <<>>
        /\ IF DuplicateAt(FirstDefect)
           THEN init_result.args = <<"Found duplicate id", IdAt(FirstDefect), "in sheet",
                                     excel_file[FirstDefect[1]].group>>
           ELSE /\ init_result.args[1] = "Invalid Data Type"
                /\ init_result.args[4] = excel_file[FirstDefect[1]].group
                /\ init_result.args[5] = IdAt(FirstDefect)

C6_Witness ==
    /\ Len(excel_file) = 2
    /\ excel_file[1].columns = <<"e1", "e2">>
    /\ excel_file[2].columns = <<"e2", "e1">>
    /\ init_result = Raise("ValueError", <<"Found duplicate id", "e2", "in sheet", "S2">>)

----------------------------------------------------------------------------
(* C7 *)

\* C7: when a row of a sheet with an entity column carries a Type outside the
\* six recognised kinds, construction aborts with a ValueError ("Invalid Data
\* Type" when that is the first defect met); construction returns only if every
\* Type met for an entity is one of the six.
C7_InvalidKindAborts ==
    init_result # Pending =>
        /\ (\E pl \in Places : BadTypeAt(pl)) => Aborted
        /\ (\E pl \in Places : DefectAt(pl)) /\ ~DuplicateAt(FirstDefect) =>
                /\ Aborted
                /\ init_result.args[1] = "Invalid Data Type"
                /\ init_result.args[2] \notin RecognisedTypes
                /\ init_result.args[5] = IdAt(FirstDefect)
        /\ Returned(init_result) =>
                /\ \A pl \in Places : ~BadTypeAt(pl)
                /\ \A e \in DOMAIN params : DOMAIN params[e] \subseteq RecognisedTypes

C7_Witness ==
    /\ Len(excel_file) = 2
    /\ ~\E pl \in Places : DuplicateAt(pl)
    /\ ~BadTypeAt(<<1, 1>>) /\ <<1, 1>> \in Places
    /\ <<2, 1>> \in Places /\ BadTypeAt(<<2, 1>>)
    /\ init_result = Raise("ValueError", <<"Invalid Data Type", "", "in", "S2", "e2">>)

----------------------------------------------------------------------------
(* The model skeleton: model_utils/initialisation.py *)

\* str.startswith
startswith(str, prefix) ==
    Len(str) >= Len(prefix) /\ SubSeq(str, 1, Len(prefix)) = prefix

\* mutant: the list ends one element early
range_short(start, stop) ==
    [i \in 1..(IF stop - 1 > start THEN stop - 1 - start ELSE 0) |-> start + i - 1]

\* range(start, stop), as a list
range(start, stop) ==
    [i \in 1..(IF stop > start THEN stop - start ELSE 0) |-> start + i - 1]

\* pyomo components
OrderedSet(list) == [ctype |-> "Set", ordered |-> TRUE, data |-> list]
UnorderedSet(members) == [ctype |-> "Set", ordered |-> FALSE, data |-> members]
Var(index) ==
    [ctype |-> "Var", index |-> index, domain |-> "NonNegativeReals", initialize |-> 0,
     seeded |-> {}, solved |-> FALSE]
Param(values) == [ctype |-> "Param", values |-> values]
Expression(index, rule) == [ctype |-> "Expression", index |-> index, rule |-> rule]
Constraint(body) == [ctype |-> "Constraint", body |-> body]

\* the members of a Set component
Members(component) ==
    IF component.ordered THEN Range(component.data) ELSE component.data

\* model.<name> = component
Attach(m, components) ==
    [name \in DOMAIN m \cup DOMAIN components |->
        IF name \in DOMAIN components THEN components[name] ELSE m[name]]

\* mutant: the comparison with 1 is missing, any value that is set and not zero
\* enables the option
build_cnf_set_truthy(entity_set, parameter) ==
    LET failing == {i \in entity_set : Raised(check_cnf(i, parameter))}
    IN  IF failing # {} THEN {check_cnf(i, parameter) : i \in failing}
        ELSE {Return({i \in entity_set :
                        check_cnf(i, parameter) \notin {Return(None), Return(Num(0))}})}

\* DataHandler.build_cnf_set: its possible outcomes, the entity set being read
\* in no fixed order and the first failing check_cnf raising
build_cnf_set(entity_set, parameter) ==
    LET failing == {i \in entity_set : Raised(check_cnf(i, parameter))}
    IN  IF failing # {} THEN {check_cnf(i, parameter) : i \in failing}
        ELSE {Return({i \in entity_set : check_cnf(i, parameter) = Return(Num(1))})}

\* pyo.Set(within=fxe, initialize={(f, e) for f in flows for e in f_x[f]}):
\* its possible outcomes
connection_set(flows, entities, f_x) ==
    LET missing == {f \in flows : f \notin DOMAIN f_x}
        pairs == UNION {{<<f, e>> : e \in Range(f_x[f])} : f \in flows}
        outside == {c \in pairs : c \notin flows \X entities}
    IN  IF missing # {} THEN {Raise("KeyError", <<f>>) : f \in missing}
        ELSE IF outside # {}
             THEN {Raise("ValueError", <<"Cannot add value to Set", c[1], c[2]>>) :
                        c \in outside}
        ELSE {Return(pairs)}

\* _init_sets: its possible outcomes, the components to attach or the error
_init_sets(m) ==
    LET entities == Range(cnf.ENTITIES)
        flows == Range(cnf.FLOWS)
        demands == {e \in entities : startswith(e, "dem_")}
        processes == entities \ demands
        temporal ==
            [Y |-> OrderedSet(cnf.YEARS),
             Y0 |-> OrderedSet(<<cnf.YEARS[1]>>),
             YALL |-> OrderedSet(range(cnf.YEARS[1], cnf.YEARS[Len(cnf.YEARS)] + 1)),
             D |-> OrderedSet(cnf.DAYS),
             DALL |-> OrderedSet(range(0, 365)),
             H |-> OrderedSet(cnf.HOURS),
             H0 |-> OrderedSet(<<cnf.HOURS[1]>>),
             E |-> UnorderedSet(entities),
             F |-> UnorderedSet(flows),
             Pros |-> UnorderedSet(processes)]
        f_in == get_flow_entity_dict(fxe["FiE"], FALSE)
        f_out == get_flow_entity_dict(fxe["FoE"], FALSE)
        with_fie(caps) ==
            LET fie == connection_set(flows, entities, f_in)
                foe == connection_set(flows, entities, f_out)
            IN  IF \E o \in fie : Raised(o) THEN fie
                ELSE IF \E o \in foe : Raised(o) THEN foe
                ELSE {Return(Attach(temporal,
                        [Caps |-> UnorderedSet(caps),
                         FiE |-> UnorderedSet((CHOOSE o \in fie : TRUE).value),
                         FoE |-> UnorderedSet((CHOOSE o \in foe : TRUE).value)]))}
    IN  IF Len(cnf.YEARS) = 0 \/ Len(cnf.HOURS) = 0
        THEN {Raise("IndexError", <<"list index out of range">>)}
        ELSE UNION {IF Raised(capacity) THEN {capacity} ELSE with_fie(capacity.value) :
                        capacity \in build_cnf_set(processes, "enable_capacity")}

\* the index set A x Y x D x H (or A x Y), tuples flattened as pyomo does
Hourly(heads, m) ==
    {h \o <<y, d, hr>> : h \in heads, y \in Members(m["Y"]), d \in Members(m["D"]),
                         hr \in Members(m["H"])}
Yearly(heads, m) == {h \o <<y>> : h \in heads, y \in Members(m["Y"])}
Single(members) == {<<x>> : x \in members}

_init_variables(m) ==
    [ctot |-> Var(Yearly(Single(Members(m["Caps"])), m)),
     cnew |-> Var(Yearly(Single(Members(m["Caps"])), m)),
     a |-> Var(Hourly(Single(Members(m["E"])), m)),
     fin |-> Var(Hourly(Members(m["FiE"]), m)),
     fout |-> Var(Hourly(Members(m["FoE"]), m))]

\* 365 / len(model.D), kept as a fraction
_day_share(m, y, d) == [num |-> 365, den |-> Len(m["D"].data)]

\* 1 / np.power(1 + discount, y - model.Y0.first()), kept as base and exponent
_discount_rates(m, y) ==
    LET discount == get_const("country", "discount_factor")
    IN  IF Raised(discount) THEN discount
        ELSE IF discount.value = None
             THEN Raise("TypeError", <<"unsupported operand type(s) for +">>)
        ELSE Return([one_over_base |-> 1 + discount.value.n,
                     exponent |-> y - m["Y0"].data[1]])

\* _init_parameters: the components to attach or the error of the first rule call
_init_parameters(m) ==
    LET yall == Members(m["YALL"])
        disc == [y \in yall |-> _discount_rates(m, y)]
    IN  IF \E y \in yall : Raised(disc[y])
        THEN disc[m["YALL"].data[1]]
        ELSE Return(
            [YL |-> Param(cnf.YEARSLICE),
             DL |-> Param([i \in Members(m["Y"]) \X Members(m["D"]) |->
                                _day_share(m, i[1], i[2])]),
             HL |-> Param(cnf.TIMESLICE),
             DISC |-> Param([y \in yall |-> disc[y].value])])

\* _init_expressions: the rules live in model_generic.generic_expressions
_init_expressions(m) ==
    [e_TotalAnnualInflow |->
        Expression(Yearly(Members(m["FiE"]), m), "e_total_annual_inflow"),
     e_TotalAnnualOutflow |->
        Expression(Yearly(Members(m["FoE"]), m), "e_total_annual_outflow"),
     e_TotalAnnualActivity |->
        Expression(Yearly(Single(Members(m["E"])), m), "e_total_annual_activity"),
     e_HourlyC2A |->
        Expression(Yearly(Single(Members(m["Caps"])), m), "e_hourly_capacity_to_activity"),
     e_CostInv |-> Expression(Single(Members(m["E"])), "e_cost_investment"),
     e_CostFixedOM |-> Expression(Single(Members(m["E"])), "e_cost_fixed_om"),
     e_CostVarOM |-> Expression(Single(Members(m["E"])), "e_cost_variable_om")]

\* mutant: the `if f == flow_id` filters are missing, every bus sums all flows
_c_io_balance_unfiltered(m, flow_id, y, d, h) ==
    [outflows_prev |-> {c \o <<y, d, h>> : c \in Members(m["FoE"])},
     sense |-> "==",
     inflows_next |-> {c \o <<y, d, h>> : c \in Members(m["FiE"])}]

\* _c_io_balance: the relation sum(fout[i] for i in outflows_prev)
\*                          == sum(fin[i] for i in inflows_next)
_c_io_balance(m, flow_id, y, d, h) ==
    [outflows_prev |-> {c \o <<y, d, h>> : c \in {fe \in Members(m["FoE"]) : fe[1] = flow_id}},
     sense |-> "==",
     inflows_next |-> {c \o <<y, d, h>> : c \in {fe \in Members(m["FiE"]) : fe[1] = flow_id}}]

\* pyo.Constraint(model.F, model.Y, model.D, model.H, rule=_c_io_balance); a rule
\* that compares two empty sums returns a plain True, which pyomo refuses
c_io_balance(m) ==
    LET index == Hourly(Single(Members(m["F"])), m)
        body == [i \in index |-> _c_io_balance(m, i[1], i[2], i[3], i[4])]
    IN  IF \E i \in index : body[i].outflows_prev = {} /\ body[i].inflows_next = {}
        THEN Raise("ValueError", <<"Constraint resolved to a trivial Boolean">>)
        ELSE Return([c_io_balance |-> Constraint(body)])

----------------------------------------------------------------------------
(* init_model, phase by phase *)

\* the program's configuration: calendar, entity list and flow list
Calendars ==
    {[YEARS |-> <<1>>, DAYS |-> <<0>>, HOURS |-> <<0>>, YEARSLICE |-> 1, TIMESLICE |-> 1],
     [YEARS |-> <<2, 4>>, DAYS |-> <<0, 1>>, HOURS |-> <<0, 1>>, YEARSLICE |-> 2,
      TIMESLICE |-> 12]}
ConfiguredEntities ==
    {<<"ext_a", "dem_c">>, <<"ext_a", "conv_pass_b", "dem_c">>,
     <<"ext_a", "conv_passenger_b", "dem_c">>}
ConfiguredFlows == {<<"f1">>, <<"f1", "f2">>}

Configurations ==
    {[YEARS |-> c.YEARS, DAYS |-> c.DAYS, HOURS |-> c.HOURS,
      YEARSLICE |-> c.YEARSLICE, TIMESLICE |-> c.TIMESLICE,
      ENTITIES |-> e, ELEMENTS |-> e, FLOWS |-> f] :
        c \in Calendars, e \in ConfiguredEntities, f \in ConfiguredFlows}

\* the conversion process the input tables describe: the configured one, if any
Converter(config) ==
    IF \E i \in DOMAIN config.ENTITIES : startswith(config.ENTITIES[i], "conv_")
    THEN config.ENTITIES[CHOOSE i \in DOMAIN config.ENTITIES :
                            startswith(config.ENTITIES[i], "conv_")]
    ELSE "conv_pass_b"

\* an entity's tables: one kind with one parameter, or nothing at all
OneTable(kind, parameter, cell) ==
    IF cell = {} THEN <<>>
    ELSE [k \in {kind} |-> [key \in {<<parameter>>} |-> CHOOSE v \in cell : TRUE]]

SkeletonStores(conv) ==
    {[e \in {"ext_a", conv, "dem_c", "country"} |->
        CASE e = "ext_a" -> OneTable("configuration", "enable_capacity", a)
          [] e = conv -> OneTable("configuration", "enable_capacity", b)
          [] e = "dem_c" -> OneTable("configuration", "enable_capacity", {Num(1)})
          [] e = "country" -> OneTable("constant", "discount_factor", r)] :
        a \in Opt({NaN, Num(0), Num(1), Num(TopVal)}), b \in Opt({Num(1)}),
        r \in Opt({NaN, Num(TopVal)})}

\* the FiE sheet has no extraction rows, the FoE sheet no demand rows
SkeletonTables(conv) ==
    {[FiE |-> DataFrame(<<conv, "dem_c">>, <<"f1", "f2">>, i),
      FoE |-> DataFrame(<<"ext_a", conv>>, <<"f1", "f2">>, o)] :
        i \in SUBSET ({conv, "dem_c"} \X {"f1", "f2"}),
        o \in SUBSET ({"ext_a", conv} \X {"f1", "f2"})}

\* model = pyo.ConcreteModel()
InitSkeleton ==
    /\ excel_file = <<>>
    /\ init_result = Return(None)
    /\ cnf \in Configurations
    /\ params \in SkeletonStores(Converter(cnf))
    /\ fxe \in SkeletonTables(Converter(cnf))
    /\ call = [NoCall EXCEPT !.op = "init_model"]
    /\ result = Return(None)
    /\ model = <<>>
    /\ pc = "start"
    /\ solver = NoSolver

\* mutant: the call of _init_parameters is missing from the body
init_model_without_parameters(at) ==
    CASE at = "start" -> "sets"
      [] at = "sets" -> "parameters"
      [] at = "parameters" -> "expressions"
      [] at = "expressions" -> "done"

\* init_model: the statements of its body, in program order; a position is named
\* after the statement that has just returned
init_model(at) ==
    CASE at = "start" -> "sets"
      [] at = "sets" -> "variables"
      [] at = "variables" -> "parameters"
      [] at = "parameters" -> "expressions"
      [] at = "expressions" -> "done"

\* mutant: the error is swallowed and the model built so far is returned
Fail_returning_model(error) ==
    /\ pc' = "done"
    /\ result' = Return("model")
    /\ UNCHANGED model

\* a phase that raised: init_model catches nothing
Fail(error) ==
    /\ pc' = "failed"
    /\ result' = error
    /\ UNCHANGED model

\* model = _init_sets(model)
InitSets ==
    /\ pc = "start"
    /\ \E outcome \in _init_sets(model) :
        IF Raised(outcome) THEN Fail(outcome)
        ELSE /\ model' = Attach(model, outcome.value)
             /\ pc' = init_model(pc)
             /\ UNCHANGED result
    /\ UNCHANGED <<buildVars, handlerVars, solver, call, cnf>>

\* model = _init_variables(model)
InitVariables ==
    /\ pc = "sets"
    /\ model' = Attach(model, _init_variables(model))
    /\ pc' = init_model(pc)
    /\ UNCHANGED <<buildVars, handlerVars, solver, callVars, cnf>>

\* model = _init_parameters(model)
InitParameters ==
    /\ pc = "variables"
    /\ LET outcome == _init_parameters(model)
       IN  IF Raised(outcome) THEN Fail(outcome)
           ELSE /\ model' = Attach(model, outcome.value)
                /\ pc' = init_model(pc)
                /\ UNCHANGED result
    /\ UNCHANGED <<buildVars, handlerVars, solver, call, cnf>>

\* model = _init_expressions(model)
InitExpressions ==
    /\ pc = "parameters"
    /\ model' = Attach(model, _init_expressions(model))
    /\ pc' = init_model(pc)
    /\ UNCHANGED <<buildVars, handlerVars, solver, callVars, cnf>>

\* model.c_io_balance = pyo.Constraint(...); return model
AttachBalance ==
    /\ pc = "expressions"
    /\ LET outcome == c_io_balance(model)
       IN  IF Raised(outcome) THEN Fail(outcome)
           ELSE /\ model' = Attach(model, outcome.value)
                /\ pc' = init_model(pc)
                /\ result' = Return("model")
    /\ UNCHANGED <<buildVars, handlerVars, solver, call, cnf>>

(* Sector assembly: model_modules/passenger.py and sectors/passenger.py *)

SectorModules == {"model_modules.passenger", "sectors.passenger"}

\* GROUP_ID
GROUP_ID(module) ==
    IF module = "model_modules.passenger" THEN "conv_pass_" ELSE "conv_passenger_"

\* the names under which a sector module reads the global sets
SetName(module, set) ==
    IF module = "model_modules.passenger" THEN set
    ELSE CASE set = "F" -> "Flows"
           [] set = "E" -> "Elems"
           [] set = "Y" -> "Years"
           [] set = "H" -> "Hours"
           [] OTHER -> set

\* the global sets under the names sectors/passenger.py reads them by
legacy_sets(m) ==
    [Flows |-> m["F"], Elems |-> m["E"], Years |-> m["Y"], YOpt |-> m["Y"],
     Hours |-> m["H"]]

\* what a phase leaves behind: the model as far as it got, and how it ended
Phase(m, outcome) == [model |-> m, outcome |-> outcome]

\* model.<name> of a model without that component
AttributeError(name) ==
    Raise("AttributeError", <<"'ConcreteModel' object has no attribute", name>>)

\* _sets: PassTrans is attached before the first global set is read
_sets(module, m) ==
    LET list == IF module = "model_modules.passenger" THEN cnf.ENTITIES ELSE cnf.ELEMENTS
        techs == {e \in Range(list) : startswith(e, GROUP_ID(module))}
        with_techs == Attach(m, [PassTrans |-> UnorderedSet(techs)])
        slice(relation) == UnorderedSet({fe \in Members(m[relation]) : fe[2] \in techs})
    IN  IF SetName(module, "F") \notin DOMAIN m
        THEN Phase(with_techs, AttributeError(SetName(module, "F")))
        ELSE IF SetName(module, "E") \notin DOMAIN m
        THEN Phase(with_techs, AttributeError(SetName(module, "E")))
        ELSE Phase(Attach(with_techs, [PassTransFoE |-> slice("FoE"),
                                       PassTransFiE |-> slice("FiE")]),
                   Return(None))

\* _e_cost_total: the terms of the sum over PassTrans
_e_cost_total(m) ==
    {<<cost, e>> : cost \in {"e_CostInv", "e_CostFixedOM", "e_CostVarOM"},
                   e \in Members(m["PassTrans"])}

\* pyo.Expression(expr=...)
ScalarExpression(expr) == [ctype |-> "Expression", expr |-> expr]

\* mutant: the sector's cost expression is declared without the sector prefix
_expressions_unprefixed(m) ==
    Phase(Attach(m, [e_CostTotal |-> ScalarExpression(_e_cost_total(m))]),
          Return(None))

\* _expressions
_expressions(m) ==
    Phase(Attach(m, [pass_e_CostTotal |-> ScalarExpression(_e_cost_total(m))]),
          Return(None))

\* pyo.Constraint(model.PassTrans, <time sets>, rule=<generic rule>): one
\* instance of the rule per index
SectorConstraint(m, times, rule) ==
    LET index == {<<e>> \o t : e \in Members(m["PassTrans"]), t \in times}
    IN  Constraint([i \in index |-> rule])

\* _constraints of model_modules/passenger.py
_constraints(m) ==
    LET Y == Single(Members(m["Y"]))
        YDH == {<<y, d, h>> : y \in Members(m["Y"]), d \in Members(m["D"]),
                              h \in Members(m["H"])}
    IN  Phase(Attach(m,
            [pass_c_flow_in |-> SectorConstraint(m, YDH, "c_flow_in"),
             pass_c_flow_out |-> SectorConstraint(m, YDH, "c_flow_out"),
             pass_c_cap_max_annual |-> SectorConstraint(m, Y, "c_cap_max_annual"),
             pass_c_cap_transfer |-> SectorConstraint(m, Y, "c_cap_transfer"),
             pass_c_cap_buildrate |-> SectorConstraint(m, Y, "c_cap_buildrate"),
             pass_c_act_cf_min_year |-> SectorConstraint(m, Y, "c_act_cf_min_year"),
             pass_c_act_cf_max_year |-> SectorConstraint(m, Y, "c_act_cf_max_year"),
             pass_c_act_max_annual |-> SectorConstraint(m, Y, "c_act_max_annual")]),
          Return(None))

\* _constraints of sectors/passenger.py
_constraints_sectors(m) ==
    LET missing == {n \in {"YOpt", "Hours", "Years"} : n \notin DOMAIN m}
        YOpt == Single(Members(m["YOpt"]))
        Years == Single(Members(m["Years"]))
        YOptHours == Members(m["YOpt"]) \X Members(m["Hours"])
    IN  IF missing # {}
        THEN Phase(m, AttributeError(IF "YOpt" \in missing THEN "YOpt"
                                     ELSE IF "Hours" \in missing THEN "Hours" ELSE "Years"))
        ELSE Phase(Attach(m,
            [pass_c_flow_in |-> SectorConstraint(m, YOptHours, "c_flow_in"),
             pass_c_flow_out |-> SectorConstraint(m, YOptHours, "c_flow_out"),
             pass_c_cap_max_annual |-> SectorConstraint(m, Years, "c_cap_max_annual"),
             pass_c_cap_transfer |-> SectorConstraint(m, YOpt, "c_cap_transfer"),
             pass_c_cap_retirement |-> SectorConstraint(m, YOpt, "c_cap_retirement"),
             pass_c_cap_buildrate |-> SectorConstraint(m, Years, "c_cap_buildrate"),
             pass_c_act_max_annual |-> SectorConstraint(m, Years, "c_act_max_annual"),
             pass_c_act_cf_min_year |-> SectorConstraint(m, Years, "c_act_cf_min_year"),
             pass_c_act_cf_max_year |-> SectorConstraint(m, YOpt, "c_act_cf_max_year")]),
          Return(None))

\* generic init_capacity: the total capacity of the subset's capacity-enabled
\* entities is seeded at the base year
init_capacity(m, entities) ==
    [m EXCEPT !["ctot"].seeded =
        @ \cup {<<e, y>> : e \in entities \cap Members(m["Caps"]), y \in Members(m["Y0"])}]

\* generic init_activity: the activity of the subset is seeded at the base year
init_activity(m, entities) ==
    [m EXCEPT !["a"].seeded =
        @ \cup {<<e, y, d, h>> : e \in entities, y \in Members(m["Y0"]),
                                 d \in Members(m["D"]), h \in Members(m["H"])}]

\* _initialise
_initialise(module, m) ==
    IF module = "model_modules.passenger"
    THEN Phase(init_capacity(m, Members(m["PassTrans"])), Return(None))
    ELSE Phase(init_capacity(init_activity(m, Members(m["PassTrans"])),
                             Members(m["PassTrans"])),
               Return(None))

\* generic cost_combined: the three cost expressions summed over an entity
\* subset and a year range
cost_combined(m, entities, years) ==
    {<<cost, e, y>> : cost \in {"e_CostInv", "e_CostFixedOM", "e_CostVarOM"},
                      e \in entities, y \in years}

\* get_cost
get_cost(module, m) ==
    cost_combined(m, Members(m["PassTrans"]), Members(m[SetName(module, "Y")]))

\* configure_sector: the statements of its body, in program order; a position is
\* named after the statement that has just returned
configure_sector(module, at) ==
    IF module = "model_modules.passenger"
    THEN CASE at = "sector_called" -> "sector_sets"
           [] at = "sector_sets" -> "sector_expressions"
           [] at = "sector_expressions" -> "sector_constraints"
           [] at = "sector_constraints" -> "sector_initialised"
    ELSE CASE at = "sector_called" -> "sector_sets"
           [] at = "sector_sets" -> "sector_constraints"
           [] at = "sector_constraints" -> "sector_initialised"

\* a phase of configure_sector has run: the model is changed in place, and an
\* error leaves configure_sector at once
Proceed(phase) ==
    /\ model' = phase.model
    /\ IF Raised(phase.outcome)
       THEN pc' = "sector_failed" /\ result' = phase.outcome
       ELSE pc' = configure_sector(call.module, pc) /\ result' = Return(None)

\* the caller hands the model of init_model to the sector module it wants
CallSector ==
    /\ pc = "done"
    /\ \E module \in SectorModules :
        call' = [op |-> "configure_sector", module |-> module]
    /\ pc' = "sector_called"
    /\ UNCHANGED <<buildVars, handlerVars, solver, result, cnf, model>>

\* the caller works with the set names of sectors/passenger.py
DeclareLegacySets ==
    /\ pc = "done"
    /\ "Flows" \notin DOMAIN model
    /\ model' = Attach(model, legacy_sets(model))
    /\ UNCHANGED <<buildVars, handlerVars, solver, callVars, cnf, pc>>

SectorSets ==
    /\ pc = "sector_called"
    /\ Proceed(_sets(call.module, model))
    /\ UNCHANGED <<buildVars, handlerVars, solver, call, cnf>>

SectorExpressions ==
    /\ pc = "sector_sets"
    /\ configure_sector(call.module, pc) = "sector_expressions"
    /\ Proceed(_expressions(model))
    /\ UNCHANGED <<buildVars, handlerVars, solver, call, cnf>>

SectorConstraints ==
    /\ pc \in {"sector_sets", "sector_expressions"}
    /\ configure_sector(call.module, pc) = "sector_constraints"
    /\ Proceed(IF call.module = "model_modules.passenger"
               THEN _constraints(model) ELSE _constraints_sectors(model))
    /\ UNCHANGED <<buildVars, handlerVars, solver, call, cnf>>

SectorInitialise ==
    /\ pc = "sector_constraints"
    /\ Proceed(_initialise(call.module, model))
    /\ UNCHANGED <<buildVars, handlerVars, solver, call, cnf>>

\* the caller asks the configured sector for its cost
GetCost ==
    /\ pc = "sector_initialised"
    /\ pc' = "cost"
    /\ result' = Return(get_cost(call.module, model))
    /\ UNCHANGED <<buildVars, handlerVars, solver, call, cnf, model>>

(* run *)

\* how the call of opt.solve can end: with a solution, with a status that has no
\* solution, or with an exception
SolverOutcomes ==
    {"optimal", "infeasible", "unbounded", "time_limit", "ValueError", "ApplicationError"}

Objective(expr) == [ctype |-> "Objective", expr |-> expr, sense |-> "minimize"]
Suffix(direction) == [ctype |-> "Suffix", direction |-> direction]

\* the solver loads its solution into the variables
load_solution(m) ==
    [name \in DOMAIN m |->
        IF m[name].ctype = "Var" THEN [m[name] EXCEPT !.solved = TRUE] ELSE m[name]]

\* run, for one way the solver call ends: the model, the world outside it and
\* what the caller gets
run(m, objective, outcome) ==
    LET declared == Attach(m, [cost |-> Objective(objective), dual |-> Suffix("IMPORT")])
        solved == [solver EXCEPT !.calls = @ + 1, !.status = outcome]
    IN  CASE outcome = "optimal" ->
                [model |-> load_solution(declared),
                 solver |-> [solved EXCEPT !.stdout = Append(@, outcome)],
                 outcome |-> Return("model")]
          [] outcome \in {"infeasible", "unbounded", "time_limit"} ->
                [model |-> declared,
                 solver |-> [solved EXCEPT !.stdout = Append(@, outcome)],
                 outcome |-> Return("model")]
          [] outcome = "ValueError" ->
                [model |-> declared,
                 solver |-> [solved EXCEPT !.files = @ \cup {"debug.lp"}],
                 outcome |-> Return("model")]
          [] OTHER ->
                [model |-> declared,
                 solver |-> solved,
                 outcome |-> Raise(outcome, <<"solver">>)]

\* the caller runs the model with the sector's cost as the objective
Run ==
    /\ pc = "cost"
    /\ \E outcome \in SolverOutcomes :
        LET ran == run(model, result.value, outcome)
        IN  /\ call' = [op |-> "run", objective |-> result.value]
            /\ model' = ran.model
            /\ solver' = ran.solver
            /\ result' = ran.outcome
            /\ pc' = IF Raised(ran.outcome) THEN "run_failed" ELSE "run_returned"
    /\ UNCHANGED <<buildVars, handlerVars, cnf>>

NextModel ==
    \/ InitSets
    \/ InitVariables
    \/ InitParameters
    \/ InitExpressions
    \/ AttachBalance
    \/ CallSector
    \/ DeclareLegacySets
    \/ SectorSets
    \/ SectorExpressions
    \/ SectorConstraints
    \/ SectorInitialise
    \/ GetCost
    \/ Run

SpecModel == InitSkeleton /\ [][NextModel]_vars

(* Assembly as a whole: the handler is constructed, or a constructed handler's
   data is assembled into a model *)

InitAssembly == InitBuild \/ InitSkeleton

NextAssembly ==
    \/ NextBuild
    \/ NextModel

SpecAssembly == InitAssembly /\ [][NextAssembly]_vars

----------------------------------------------------------------------------
(* Flow conservation *)

\* sum(values[i] for i in indices)
RECURSIVE sum(_, _)
sum(values, indices) ==
    IF indices = {} THEN 0
    ELSE LET i == CHOOSE j \in indices : TRUE
         IN  values[i] + sum(values, indices \ {i})

\* the levels a flow variable may take
FlowLevels == 0..MaxFlow

\* an assignment of the flow variables satisfies every c_io_balance constraint
Balanced(m, fin_value, fout_value) ==
    \A i \in DOMAIN m["c_io_balance"].body :
        LET relation == m["c_io_balance"].body[i]
        IN  sum(fout_value, relation.outflows_prev) = sum(fin_value, relation.inflows_next)

\* the (f, e, y, d, h) indices of a relation's members of one flow at one time
AtBus(relation, flow, y, d, h) ==
    {<<c[1], c[2], y, d, h>> : c \in {fe \in Members(relation) : fe[1] = flow}}

\* two entities, one flow, one year, one day, one hour; one inflow, one outflow
TwoEntityExample ==
    /\ Len(cnf.ENTITIES) = 2 /\ Len(cnf.FLOWS) = 1
    /\ Len(cnf.YEARS) = 1 /\ Len(cnf.DAYS) = 1 /\ Len(cnf.HOURS) = 1
    /\ Cardinality(model["fin"].index) = 1
    /\ Cardinality(model["fout"].index) = 1

\* C10: once init_model has returned, c_io_balance holds one equality per
\* (flow, year, day, hour) of F x Y x D x H, whose left side sums fout over the
\* FoE pairs of that flow and whose right side sums fin over the FiE pairs of
\* that flow, both at that exact time index; and in the structure of two
\* entities, one flow and one year, day and hour, with the inflow fixed at 10,
\* every assignment that satisfies the constraints has outflow 10.
C10_FlowConservation ==
    pc = "done" =>
        LET balance == model["c_io_balance"]
            times == Range(cnf.YEARS) \X Range(cnf.DAYS) \X Range(cnf.HOURS)
        IN  /\ balance.ctype = "Constraint"
            /\ DOMAIN balance.body =
                    {<<f, t[1], t[2], t[3]>> : f \in Range(cnf.FLOWS), t \in times}
            /\ DOMAIN balance.body =
                    {<<f>> \o t : f \in Members(model["F"]),
                        t \in Members(model["Y"]) \X Members(model["D"]) \X Members(model["H"])}
            /\ \A i \in DOMAIN balance.body :
                /\ balance.body[i].sense = "=="
                /\ balance.body[i].outflows_prev =
                        AtBus(model["FoE"], i[1], i[2], i[3], i[4])
                /\ balance.body[i].inflows_next =
                        AtBus(model["FiE"], i[1], i[2], i[3], i[4])
                /\ balance.body[i].outflows_prev \subseteq model["fout"].index
                /\ balance.body[i].inflows_next \subseteq model["fin"].index
            /\ TwoEntityExample =>
                \A level \in FlowLevels :
                    LET fin_value == [i \in model["fin"].index |-> 10]
                        fout_value == [i \in model["fout"].index |-> level]
                    IN  Balanced(model, fin_value, fout_value) => level = 10

\* C10 witness: init_model has returned the two-entity example, its one outflow
\* balanced against its one inflow at level 10
C10_Witness ==
    /\ pc = "done"
    /\ TwoEntityExample
    /\ Balanced(model, [i \in model["fin"].index |-> 10],
                       [i \in model["fout"].index |-> 10])
    /\ 10 \in FlowLevels

----------------------------------------------------------------------------
(* C11 *)

\* the sets are attached: _init_sets has returned
SetsAttached == pc \in {"sets", "variables", "parameters", "expressions", "done"}

\* the stored enable_capacity cell of an entity; for an entity without one
\* _init_sets does not return
FlagOf(e) == params[e]["configuration"][<<"enable_capacity">>]

\* C11: once _init_sets has returned, Pros is the entity list without the
\* entities whose identifier starts with "dem_", and Caps is exactly the set of
\* those processes whose enable_capacity flag is true, that is equal to 1: no
\* demand entity is in Caps even if its own flag is 1, and no process whose flag
\* is empty is in Caps.
C11_ProcessesAndCaps ==
    SetsAttached =>
        LET entities == Range(cnf.ENTITIES)
            demands == {e \in entities : SubSeq(e, 1, 4) = "dem_"}
            Pros == Members(model["Pros"])
            Caps == Members(model["Caps"])
        IN  /\ Members(model["E"]) = entities
            /\ Pros = entities \ demands
            /\ Caps \subseteq Pros
            /\ \A e \in Pros : e \in Caps <=> FlagOf(e) = Num(1)
            /\ \A e \in demands : e \notin Caps
            /\ \A e \in Pros : FlagOf(e) = NaN => e \notin Caps

\* C11 witness: the sets are attached for a configuration with a demand whose
\* flag is 1, a process in Caps and a process whose flag is empty
C11_Witness ==
    /\ pc = "sets"
    /\ "dem_c" \in Members(model["E"]) /\ FlagOf("dem_c") = Num(1)
    /\ "conv_pass_b" \in Members(model["Caps"])
    /\ "ext_a" \in Members(model["Pros"]) /\ FlagOf("ext_a") = NaN
    /\ "ext_a" \notin Members(model["Caps"])

----------------------------------------------------------------------------
(* C12 *)

\* the components each skeleton phase declares
SetNames == {"Y", "Y0", "YALL", "D", "DALL", "H", "H0", "E", "F", "Pros", "Caps", "FiE", "FoE"}
VariableNames == {"ctot", "cnew", "a", "fin", "fout"}
ParameterNames == {"YL", "DL", "HL", "DISC"}
ExpressionNames ==
    {"e_TotalAnnualInflow", "e_TotalAnnualOutflow", "e_TotalAnnualActivity",
     "e_HourlyC2A", "e_CostInv", "e_CostFixedOM", "e_CostVarOM"}
SkeletonNames ==
    SetNames \cup VariableNames \cup ParameterNames \cup ExpressionNames \cup {"c_io_balance"}

SkeletonPositions == {"start", "sets", "variables", "parameters", "expressions"}

\* what a step of init_model declares
Declared(m, n) == DOMAIN n \ DOMAIN m

\* a step of init_model is the next phase in program order, or its failure
SkeletonStep ==
    pc \in SkeletonPositions /\ pc' # pc =>
        /\ \/ pc' = "failed" /\ model' = model
           \/ /\ pc = "start" /\ pc' = "sets"
              /\ DOMAIN model = {} /\ Declared(model, model') = SetNames
           \/ /\ pc = "sets" /\ pc' = "variables"
              /\ DOMAIN model = SetNames /\ Declared(model, model') = VariableNames
           \/ /\ pc = "variables" /\ pc' = "parameters"
              /\ DOMAIN model = SetNames \cup VariableNames
              /\ Declared(model, model') = ParameterNames
           \/ /\ pc = "parameters" /\ pc' = "expressions"
              /\ DOMAIN model = SetNames \cup VariableNames \cup ParameterNames
              /\ Declared(model, model') = ExpressionNames
           \/ /\ pc = "expressions" /\ pc' = "done"
              /\ DOMAIN model = SkeletonNames \ {"c_io_balance"}
              /\ Declared(model, model') = {"c_io_balance"}
        /\ \A name \in DOMAIN model : name \in DOMAIN model' /\ model'[name] = model[name]

\* C12: every step of init_model is the next phase in the order sets, variables,
\* parameters, expressions, flow-conservation constraint, or the failure of that
\* phase; a phase declares its own components and nothing else, once, on top of
\* everything the phases before it declared, and the constraint is declared only
\* on a model that holds the components of all four phases.
C12_PhaseOrder == [][SkeletonStep]_vars

\* C12 witness: init_model has returned, all five groups of components declared
C12_Witness ==
    /\ pc = "done"
    /\ result = Return("model")
    /\ DOMAIN model = SkeletonNames

----------------------------------------------------------------------------
(* C13 *)

SectorPositions ==
    {"sector_called", "sector_sets", "sector_expressions", "sector_constraints",
     "sector_initialised"}

\* a step of a sector assembler is the next phase of the protocol, or its failure
ProtocolStep ==
    pc \in SectorPositions /\ pc' # pc =>
        \/ pc' = "sector_failed"
        \/ pc = "sector_called" /\ pc' = "sector_sets"
        \/ pc = "sector_sets" /\ pc' = "sector_expressions"
        \/ pc = "sector_expressions" /\ pc' = "sector_constraints"
        \/ pc = "sector_constraints" /\ pc' = "sector_initialised"
        \/ pc = "sector_initialised" /\ pc' = "cost"

\* C13: both passenger sector assemblers run their phases in the order
\* declare-sets, declare-expressions, declare-constraints, initialize, with
\* get_cost last; no phase is skipped or reordered.
C13_SectorProtocol == [][ProtocolStep]_vars

----------------------------------------------------------------------------
(* C14 *)

\* the entities of the global list that the called sector's prefix selects
Selected ==
    {e \in Range(cnf.ENTITIES) : startswith(e, GROUP_ID(call.module))}

\* C14: when the sector's prefix selects no entity of the global entity list,
\* sector assembly does not complete normally: configure_sector does not return,
\* and no cost is handed out, for a sector without entities.
C14_EmptySectorSignal ==
    (call.op = "configure_sector" /\ Selected = {}) =>
        pc \notin {"sector_initialised", "cost"}

----------------------------------------------------------------------------
(* C15 *)

\* the solver call ended without a solution
NoSolution == solver.status \in {"infeasible", "unbounded", "time_limit", "ValueError",
                                 "ApplicationError"}

\* what the caller reads as the value of a variable: a loaded solution, a seeded
\* value, or the value the variable was declared with
ValueRead(v, i) ==
    IF model[v].solved THEN "solution"
    ELSE IF i \in model[v].seeded THEN "seed"
    ELSE model[v].initialize

\* C15: whenever the solver call of run ends without a solution, what run hands
\* back tells the caller so (it is not the plain model a successful solve hands
\* back), and no decision variable reads as zero.
C15_NoSolutionNotZero ==
    (call.op = "run" /\ NoSolution) =>
        /\ result # Return("model")
        /\ \A v \in VariableNames : \A i \in model[v].index : ValueRead(v, i) # 0

----------------------------------------------------------------------------
(* C16 *)

\* the solver call of run failed with an exception
SolverFailed == solver.status \in {"ValueError", "ApplicationError"}

\* C16: when the solver call inside run fails, run has written the symbolic dump
\* to debug.lp, has called the solver once only, and has returned to its caller
\* instead of letting the failure escape.
C16_FailureDumped ==
    (call.op = "run" /\ SolverFailed) =>
        /\ "debug.lp" \in solver.files
        /\ solver.calls = 1
        /\ Returned(result)

----------------------------------------------------------------------------
(* C17 *)

HasFlow == call.op \in {"get_const_fxe", "get_annual_fxe", "get_fxe"}
HasYear == call.op \in {"get_annual", "get_annual_fxe", "get", "get_fxe"}

\* C17: every error a store accessor raises carries the entity and the parameter
\* of the lookup, and its flow and its year when the accessor takes them; every
\* error that aborts construction carries the entity identifier of the offending
\* column.
C17_ErrorsNameTheLookup ==
    /\ (call # NoCall /\ Raised(result)) =>
            /\ call.entity_id \in Range(result.args)
            /\ call.parameter \in Range(result.args)
            /\ HasFlow => call.flow \in Range(result.args)
            /\ HasYear => ToString(call.year) \in Range(result.args)
    /\ Aborted => IdAt(FirstDefect) \in Range(init_result.args)

----------------------------------------------------------------------------
(* C18 *)

\* the name carries the passenger sector's prefix
SectorPrefixed(name) == SubSeq(name, 1, 4) \in {"pass", "Pass"}

\* a component is still the one that was declared: a variable may get values
SameDeclaration(old, new) ==
    IF old.ctype = "Var"
    THEN /\ new.ctype = "Var"
         /\ new.index = old.index
         /\ new.domain = old.domain
         /\ new.initialize = old.initialize
    ELSE new = old

\* a step of configure_sector only adds sector-prefixed components
AdditiveStep ==
    call.op = "configure_sector" /\ pc \in SectorPositions =>
        /\ \A name \in DOMAIN model :
            /\ name \in DOMAIN model'
            /\ SameDeclaration(model[name], model'[name])
        /\ \A name \in {"Y", "D", "H", "E", "F", "Caps", "FiE", "FoE"} :
            Members(model'[name]) = Members(model[name])
        /\ \A name \in Declared(model, model') :
            SectorPrefixed(name) /\ name \notin SkeletonNames

\* C18: every step of configure_sector keeps each component the model already
\* holds as it was declared, leaves the members of the global sets Y, D, H, E,
\* F, Caps, FiE and FoE unchanged, and declares only components whose name
\* carries the sector prefix and is not a name of the skeleton.
C18_SectorIsAdditive == [][AdditiveStep]_vars

\* C18 witness: configure_sector has returned for a sector with an entity, its
\* sets, cost expression and constraints declared next to the whole skeleton and
\* a capacity seeded
C18_Witness ==
    /\ pc = "sector_initialised"
    /\ call.module = "model_modules.passenger"
    /\ Members(model["PassTrans"]) # {}
    /\ SkeletonNames \subseteq DOMAIN model
    /\ {"PassTransFoE", "PassTransFiE", "pass_e_CostTotal", "pass_c_flow_in"}
            \subseteq DOMAIN model
    /\ model["ctot"].seeded # {}

----------------------------------------------------------------------------
(* The constructed handler under every read *)

\* stores with configuration flags next to constants and annual values
HandlerStores ==
    {[e \in KnownEntities |-> s[e] @@ OneTable("configuration", "p", flag)] :
        s \in {t \in Stores : \A e \in KnownEntities : DOMAIN t[e] \subseteq {"constant", "annual"}},
        flag \in Opt({NaN, Num(1)})}

HandlerSheets ==
    {[FiE |-> DataFrame(<<"e1", "e2">>, <<"f1", "f2">>, i),
      FoE |-> DataFrame(<<"e1", "e2">>, <<"f1", "f2">>, o)] :
        i \in {{<<"e1", "f1">>}, {<<"e1", "f1">>, <<"e2", "f1">>, <<"e2", "f2">>}},
        o \in {{}, {<<"e2", "f1">>}}}

InitReadOnly ==
    /\ excel_file = <<>>
    /\ init_result = Return(None)
    /\ params \in HandlerStores
    /\ fxe \in HandlerSheets
    /\ call = NoCall
    /\ result = Return(None)
    /\ cnf = <<>>
    /\ model = <<>>
    /\ pc = "idle"
    /\ solver = NoSolver

CheckCnf ==
    /\ call = NoCall
    /\ \E e \in QueryEntities, p \in QueryParameters :
        /\ call' = Query("check_cnf", e, p, "", 0, FALSE)
        /\ result' = check_cnf(e, p)
        /\ UNCHANGED <<buildVars, handlerVars, modelVars>>

BuildCnfSet ==
    /\ call = NoCall
    /\ \E entity_set \in SUBSET QueryEntities, p \in QueryParameters :
        /\ call' = [op |-> "build_cnf_set", entity_set |-> entity_set, parameter |-> p]
        /\ result' \in build_cnf_set(entity_set, p)
        /\ UNCHANGED <<buildVars, handlerVars, modelVars>>

NextReadOnly ==
    \/ NextStore
    \/ CheckCnf
    \/ BuildCnfSet
    \/ GetFlowEntityDict
    \/ MergeDicts

SpecReadOnly == InitReadOnly /\ [][NextReadOnly]_vars

----------------------------------------------------------------------------
(* C19 *)

ReadOnlyStep ==
    /\ params' = params
    /\ fxe' = fxe
    /\ call'.op = "merge_dicts" => call'.after = <<call'.dict1, call'.dict2>>

\* C19: no call of check_cnf, get_const, get_const_fxe, get_annual,
\* get_annual_fxe, get, get_fxe, build_cnf_set, get_flow_entity_dict or
\* merge_dicts, returning or raising, changes DataHandler.params, DataHandler.fxe
\* (whose sheets are the tables passed to get_flow_entity_dict) or the mappings
\* passed to merge_dicts.
C19_ReadOnly == [][ReadOnlyStep]_vars

C19_Witness ==
    /\ call.op = "merge_dicts"
    /\ "f1" \in DOMAIN call.dict1 \cap DOMAIN call.dict2
    /\ call.dict1["f1"] # <<>> /\ call.dict2["f1"] # <<>>
    /\ result = Return(merge_dicts(call.dict1, call.dict2))
    /\ result.value["f1"] = call.dict1["f1"] \o call.dict2["f1"]
    /\ call.dict1 \in {get_flow_entity_dict(fxe[group], FALSE) : group \in DOMAIN fxe}
    /\ \E e \in DOMAIN params : "configuration" \in DOMAIN params[e]

----------------------------------------------------------------------------
(* C20 *)

SectorNames ==
    {"PassTrans", "PassTransFoE", "PassTransFiE", "pass_c_flow_in", "pass_c_flow_out",
     "pass_c_cap_max_annual", "pass_c_cap_transfer", "pass_c_cap_buildrate",
     "pass_c_act_cf_min_year", "pass_c_act_cf_max_year", "pass_c_act_max_annual"}

Stopped == Raised(init_result) \/ pc \in {"failed", "sector_failed"}

\* a step of construction or assembly, seen from the caller
ErrorStops ==
    /\ ~Stopped
    /\ Raised(init_result') => params' = <<>> /\ fxe' = <<>>
    /\ init_result = Pending /\ Returned(init_result') =>
            /\ Returned(read_sheets(excel_file, 1, <<>>, <<>>))
            /\ [fxe |-> fxe', params |-> params'] = read_sheets(excel_file, 1, <<>>, <<>>).value
    /\ pc' \in {"failed", "sector_failed"} /\ pc' # pc =>
            /\ Raised(result')
            /\ solver' = solver
    /\ pc' = "failed" => model' = model
    /\ pc' = "done" /\ pc # "done" =>
            /\ result' = Return("model")
            /\ SkeletonNames \subseteq DOMAIN model'
    /\ pc' = "sector_initialised" => SectorNames \subseteq DOMAIN model'

\* C20: an error raised in DataHandler construction, in init_model or in
\* configure_sector reaches the caller as that error; no step is taken after
\* it; a failed construction leaves no params or fxe; init_model hands out a
\* model only with every skeleton component on it, and configure_sector
\* finishes only with every phase's components attached.
C20_ErrorsStopAssembly == [][ErrorStops]_vars

C20_Witness ==
    /\ pc = "failed"
    /\ Raised(result)
    /\ VariableNames \subseteq DOMAIN model
    /\ "DISC" \notin DOMAIN model

----------------------------------------------------------------------------
(* C21 *)

\* the entities with a non-missing cell in a flow's column of a sheet
CellsOf(group, f) == {c[1] : c \in {d \in fxe[group].notna : d[2] = f}}

\* a configured flow with no non-missing cell in the FiE or in the FoE sheet
EmptyFlows ==
    {f \in Range(cnf.FLOWS) : \E group \in {"FiE", "FoE"} : CellsOf(group, f) = {}}

\* C21: whenever _init_sets has produced the sets, every pair of FiE and of FoE
\* lies in F x E and every flow of F has a connected entity in FiE and in FoE;
\* with a configured flow that has no non-missing cell in the FiE or in the FoE
\* sheet _init_sets produces no sets and init_model ends with the error.
C21_NoEmptyFlowInSets ==
    /\ "F" \in DOMAIN model =>
        LET FxE == Members(model["F"]) \X Members(model["E"])
        IN  /\ Members(model["FiE"]) \subseteq FxE
            /\ Members(model["FoE"]) \subseteq FxE
            /\ \A f \in Members(model["F"]) :
                /\ \E e \in Members(model["E"]) : <<f, e>> \in Members(model["FiE"])
                /\ \E e \in Members(model["E"]) : <<f, e>> \in Members(model["FoE"])
    /\ pc # "idle" /\ EmptyFlows # {} =>
        /\ model = <<>>
        /\ pc \in {"start", "failed"}
        /\ pc = "failed" => Raised(result)

\* the sets exist for one configured flow, the sheets' other flow being dropped
C21_Witness ==
    /\ pc = "sets"
    /\ Members(model["F"]) = {"f1"}
    /\ CellsOf("FiE", "f2") = {} /\ CellsOf("FoE", "f1") # {}
    /\ Cardinality(Members(model["FiE"])) = 2
    /\ {c[1] : c \in Members(model["FoE"])} = {"f1"}

----------------------------------------------------------------------------
(* C22 *)

\* 1 / base^exponent is 1
IsOne(factor) == factor.exponent = 0 \/ factor.one_over_base = 1

----------------------------------------------------------------------------
(* C23 *)

\* the same call without trigger_error
NonStrict ==
    IF call.op = "get"
    THEN get(call.entity_id, call.parameter, call.year, FALSE)
    ELSE get_fxe(call.entity_id, call.parameter, call.flow, call.year, FALSE)

\* no record of the call's key holds a number
OnlyNaN ==
    /\ Present(AnnualKind, AnnualKey) => Stored(AnnualKind, AnnualKey) = NaN
    /\ Present(ConstKind, ConstKey) => Stored(ConstKind, ConstKey) = NaN

====
